---------------------------- MODULE Spec2Model ----------------------------
(***************************************************************************)
(* Station orientation analysis (seismic/analyze_station_orientations.py). *)
(*                                                                         *)
(* The model follows process_event_file: the dataset is loaded, the date   *)
(* range of every station is recorded, the dataset is trimmed, downsampled *)
(* and curated, one _run_single_station job per station is dispatched to   *)
(* the joblib worker pool, the amplitude curves are collected and zipped   *)
(* against the station list, every station's closed curve is gated and     *)
(* fitted, and the result mapping is returned and written to dest_file.    *)
(*                                                                         *)
(* Numbers: angles and back-azimuths are whole degrees.  A cosine is an    *)
(* integer in -10000..10000 (the cosine times 10^4); a fitted amplitude A  *)
(* is in tenths.  The undefined amplitude (np.nan) is the record NaN.      *)
(* External collaborators (transform_stream_to_rf, curate_seismograms,     *)
(* scipy's curve_fit) are nondeterministic choices over bounded outcomes.  *)
(***************************************************************************)
EXTENDS Integers, Sequences, FiniteSets, TLC

\* ------------------------------------------------------------------ bounds
\* Most stations of a batch dataset.
MaxStations == 2
\* Most events of a station whose receiver function can be computed.
MaxGood == 5
\* Most events of a station whose receiver function is never computed.
MaxNever == 1

\* ------------------------------------------------------- program constants
\* np.linspace(-180, 180, num=20, endpoint=False)
NumAngles == 20
\* np.linspace(-180, 180, num=361)
NumFine == 361
\* if n_valid < 5
MinValid == 5

\* The station names of a dataset, in by_station() order.
Names == <<"ST1", "ST2", "ST3", "ST4">>

\* ---------------------------------------------------------------- cosines
\* cos(d degrees) * 10^4 for d = 0..90, rounded.
CosQuarter ==
   << 10000, 9998, 9994, 9986, 9976, 9962, 9945, 9925, 9903, 9877, 9848, 9816, 9781,
      9744, 9703, 9659, 9613, 9563, 9511, 9455, 9397, 9336, 9272, 9205, 9135, 9063,
      8988, 8910, 8829, 8746, 8660, 8572, 8480, 8387, 8290, 8192, 8090, 7986, 7880,
      7771, 7660, 7547, 7431, 7314, 7193, 7071, 6947, 6820, 6691, 6561, 6428, 6293,
      6157, 6018, 5878, 5736, 5592, 5446, 5299, 5150, 5000, 4848, 4695, 4540, 4384,
      4226, 4067, 3907, 3746, 3584, 3420, 3256, 3090, 2924, 2756, 2588, 2419, 2250,
      2079, 1908, 1736, 1564, 1392, 1219, 1045, 872, 698, 523, 349, 175, 0 >>

\* np.cos(np.deg2rad(d)) in exact arithmetic, times 10^4.
Cos(d) ==
   LET m == d % 360
   IN  IF m <= 90 THEN CosQuarter[m + 1]
       ELSE IF m <= 180 THEN -CosQuarter[180 - m + 1]
       ELSE IF m <= 270 THEN -CosQuarter[m - 180 + 1]
       ELSE CosQuarter[360 - m + 1]

\* ------------------------------------------------------------- angle grids
\* angles = np.linspace(-180, 180, num=20, endpoint=False)
angles == [i \in 1..NumAngles |-> -180 + (i - 1) * (360 \div NumAngles)]

\* angles_fine = np.linspace(-180, 180, num=361): both end points included.
angles_fine == [i \in 1..NumFine |-> -180 + ((i - 1) * 360) \div (NumFine - 1)]

\* x = np.hstack((angles, angles[0] + 360))
x == Append(angles, angles[1] + 360)

\* np.nan
NaN == [finite |-> FALSE, v |-> 0]

Finite(v) == [finite |-> TRUE, v |-> v]

\* ------------------------------------------------- _run_single_station
\* while tr.stats.back_azimuth < 0: tr.stats.back_azimuth += 360
RECURSIVE WrapUp(_)
WrapUp(b) == IF b < 0 THEN WrapUp(b + 360) ELSE b

\* The second loop with > in place of >=.
RECURSIVE WrapDownStrict(_)
WrapDownStrict(b) == IF b > 360 THEN WrapDownStrict(b - 360) ELSE b

\* while tr.stats.back_azimuth >= 360: tr.stats.back_azimuth -= 360
RECURSIVE WrapDown(_)
WrapDown(b) == IF b >= 360 THEN WrapDown(b - 360) ELSE b

\* The two loops, in the order of the code.
Wrap(b) == WrapDown(WrapUp(b))

\* tr.stats.back_azimuth += correction, then the two loops, on a deep copy of
\* the stream: the back-azimuth of the rotated copy.
Rotate(back_azimuth, correction) == Wrap(back_azimuth + correction)

\* transform_stream_to_rf(evid, RFStream(stream_rot), ...) is not None.  The
\* transform is external: an event yields a receiver function for the rotated
\* back-azimuths of a window [lo, lo + width) of the circle (width 0: never).
TransformYields(ev, baz) ==
   /\ ev.mode = "ok"
   /\ ((baz - ev.lo) % 360) < ev.width

\* The transform raises for this event (a failure inside the worker).
TransformRaises(ev) == ev.mode = "raise"

\* The mean radial amplitude the event's receiver function contributes: it is
\* largest when the rotated back-azimuth is the true one.
RfAmp(ev, baz) == ev.gain * Cos(baz - ev.tbaz)

\* A rotation without the deep copy: stream_rot is the caller's stream itself,
\* so the correction is applied to the original as well.
RotatedAlias(stream, correction) ==
   LET rot == [stream EXCEPT !.baz = Rotate(@, correction)]
   IN  [stream |-> rot, stream_rot |-> rot]

\* stream_rot = copy.deepcopy(stream), then the rotation of stream_rot: the
\* caller's stream as it is afterwards, and the rotated copy.
RotatedCopy(stream, correction) ==
   [stream |-> stream,
    stream_rot |-> [stream EXCEPT !.baz = Rotate(@, correction)]]

\* An event loop that gives up the aggregate when an event yields no receiver
\* function.
RECURSIVE RfStreamAllReset(_, _, _)
RfStreamAllReset(db_evid, j, correction) ==
   IF j = 0 THEN [n |-> 0, s |-> 0, db |-> db_evid, rot |-> <<>>]
   ELSE LET r == RfStreamAllReset(db_evid, j - 1, correction)
            c == RotatedCopy(r.db[j], correction)
        IN  IF TransformYields(c.stream_rot, c.stream_rot.baz)
            THEN [n |-> r.n + 1, s |-> r.s + RfAmp(c.stream_rot, c.stream_rot.baz),
                  db |-> [r.db EXCEPT ![j] = c.stream],
                  rot |-> Append(r.rot, c.stream_rot.baz)]
            ELSE [n |-> 0, s |-> 0,
                  db |-> [r.db EXCEPT ![j] = c.stream],
                  rot |-> Append(r.rot, c.stream_rot.baz)]

\* The loop over db_evid.items() at one correction, up to event j: the number
\* of events that contributed to rf_stream_all (n), the sum of their
\* amplitudes (s), the collection as the loop leaves it (db) and the
\* back-azimuth of every rotated copy (rot).  An event without a receiver
\* function is passed over (continue).
RECURSIVE RfStreamAll(_, _, _)
RfStreamAll(db_evid, j, correction) ==
   IF j = 0 THEN [n |-> 0, s |-> 0, db |-> db_evid, rot |-> <<>>]
   ELSE LET r == RfStreamAll(db_evid, j - 1, correction)
            c == RotatedCopy(r.db[j], correction)
        IN  IF TransformYields(c.stream_rot, c.stream_rot.baz)
            THEN [n |-> r.n + 1, s |-> r.s + RfAmp(c.stream_rot, c.stream_rot.baz),
                  db |-> [r.db EXCEPT ![j] = c.stream],
                  rot |-> Append(r.rot, c.stream_rot.baz)]
            ELSE [r EXCEPT !.db = [r.db EXCEPT ![j] = c.stream],
                           !.rot = Append(r.rot, c.stream_rot.baz)]

\* ampl_mean of an aggregate: the mean of the stack, or np.nan when
\* len(rf_stream_all) is 0.
StackMean(r) == IF r.n > 0 THEN Finite(r.s \div r.n) ELSE NaN

\* ampl_mean for one correction.
AmplMean(db_evid, correction) ==
   StackMean(RfStreamAll(db_evid, Len(db_evid), correction))

\* The loop over the first k angles: the amplitudes appended so far, the
\* collection as the loop leaves it, and the back-azimuths of the rotated
\* copies, per angle and per event.
RECURSIVE Sweep(_, _)
Sweep(db_evid, k) ==
   IF k = 0 THEN [ampls |-> <<>>, db |-> db_evid, rotated |-> <<>>]
   ELSE LET p == Sweep(db_evid, k - 1)
            r == RfStreamAll(p.db, Len(p.db), angles[k])
        IN  [ampls |-> Append(p.ampls, StackMean(r)),
             db |-> r.db,
             rotated |-> Append(p.rotated, r.rot)]

\* _run_single_station(db_evid, angles, ...): one amplitude per angle.
RunSingleStation(db_evid) == Sweep(db_evid, NumAngles).ampls

\* The back-azimuth of every rotated copy: per angle, per event.
RotatedBaz(db_evid) == Sweep(db_evid, NumAngles).rotated

\* Some event of the collection makes the worker raise.
JobRaises(db_evid) == \E j \in 1..Len(db_evid) : TransformRaises(db_evid[j])


\* ------------------------------------------------ analyze_station_orientations
\* results[code]: the keys of the entry and their values.
DateOnly(date_range) ==
   [keys |-> {"date_range"}, date_range |-> date_range, azimuth_correction |-> 0]

WithAzimuth(entry, angle_max) ==
   [entry EXCEPT !.keys = @ \cup {"azimuth_correction"},
                 !.azimuth_correction = angle_max]

\* defaultdict(dict): results[code] of a code without an entry is a new dict.
Entry(res, code) ==
   IF code \in DOMAIN res THEN res[code]
   ELSE [keys |-> {}, date_range |-> <<>>, azimuth_correction |-> 0]

\* results[code] = entry
Put(res, code, entry) ==
   [c \in (DOMAIN res) \cup {code} |-> IF c = code THEN entry ELSE res[c]]

\* '.'.join([ned.network, sta])
Code(sta) == <<"AU", sta>>

RECURSIVE MinStart(_, _)
MinStart(db_evid, j) ==
   IF j = 1 THEN db_evid[1].starttime
   ELSE LET m == MinStart(db_evid, j - 1)
        IN  IF db_evid[j].starttime < m THEN db_evid[j].starttime ELSE m

RECURSIVE MaxEnd(_, _)
MaxEnd(db_evid, j) ==
   IF j = 1 THEN db_evid[1].endtime
   ELSE LET m == MaxEnd(db_evid, j - 1)
        IN  IF db_evid[j].endtime > m THEN db_evid[j].endtime ELSE m

\* [str(start_time), str(end_time)] of one station's collection.
DateRange(db_evid) ==
   IF Len(db_evid) = 0 THEN <<"None", "None">>
   ELSE <<MinStart(db_evid, Len(db_evid)), MaxEnd(db_evid, Len(db_evid))>>

\* The loop over ned.by_station() that fills results with the date ranges.
RECURSIVE DateRanges(_, _)
DateRanges(dataset, i) ==
   IF i = 0 THEN [c \in {} |-> DateOnly(<<>>)]
   ELSE Put(DateRanges(dataset, i - 1), Code(dataset[i].sta),
            DateOnly(DateRange(dataset[i].events)))

\* len(ned): the number of event streams of the dataset.
RECURSIVE NedLen(_)
NedLen(dataset) ==
   IF Len(dataset) = 0 THEN 0
   ELSE Len(dataset[1].events) + NedLen(Tail(dataset))

\* set([evid for _, evid, _ in ned])
Evids(dataset) ==
   UNION { {dataset[i].events[j].evid : j \in 1..Len(dataset[i].events)} :
             i \in 1..Len(dataset) }

\* A dispatch that hands the results back in the order the jobs completed.
CompletionOrder(out, completed) ==
   [i \in 1..Len(out) |-> out[completed[i]].ampls]

\* sta_ampls = job_runner(jobs): joblib hands the results back in the order the
\* jobs were submitted, whatever the order they completed in.
Retrieve(out, completed) == [i \in 1..Len(out) |-> out[i].ampls]

\* [(sta, N, ampls) for (sta, N), ampls in zip(stations, sta_ampls)]
Zip(sta_list, sta_ampls) ==
   [i \in 1..(IF Len(sta_list) < Len(sta_ampls) THEN Len(sta_list) ELSE Len(sta_ampls))
      |-> [sta |-> sta_list[i].sta, N |-> sta_list[i].N, ampls |-> sta_ampls[i]]]

\* A closure that repeats the last sample instead of the first.
ClosedCurveLast(ampls) == Append(ampls, ampls[Len(ampls)])

\* y = np.array(ampls + [ampls[0]])
ClosedCurve(ampls) == Append(ampls, ampls[1])

\* A count of the finite samples that leaves out the point appended last.
NValidGrid(curve) == Cardinality({i \in 1..(Len(curve) - 1) : curve[i].finite})

\* n_valid = np.sum(np.isfinite(y))
NValid(curve) == Cardinality({i \in 1..Len(curve) : curve[i].finite})

\* y_fitted = A_fit*np.cos(np.deg2rad(angles_fine + ph_fit)).  The first and the
\* last point of angles_fine are the same direction, so in exact arithmetic
\* their values are equal; in double arithmetic the two are computed from
\* arguments 360 degrees apart and may differ in the last place (A_fit =
\* 0.9474327497885584, ph_fit = 179.5776609221834 gives 0.9474070106682092 at
\* -180 and 0.9474070106682093 at 180).  Values are doubled so that eps, the
\* rounding of the last point against the first, only decides ties.  With
\* A_fit = 0 every product is zero and nothing is rounded.
YFitted(A_fit, ph_fit, eps) ==
   [i \in 1..NumFine |->
      2 * A_fit * Cos(angles_fine[i] + ph_fit)
        + (IF i = NumFine /\ A_fit # 0 THEN eps ELSE 0)]

\* np.argmax: the first index of the largest value.
ArgMax(s) ==
   CHOOSE i \in 1..Len(s) :
      /\ \A j \in 1..Len(s) : s[j] <= s[i]
      /\ \A j \in 1..(i - 1) : s[j] < s[i]

\* angle_max = angles_fine[np.argmax(y_fitted)]
AngleMax(A_fit, ph_fit, eps) == angles_fine[ArgMax(YFitted(A_fit, ph_fit, eps))]

\* What optimize.curve_fit can hand back within its bounds ([-1, -180],
\* [1, 180]): A_fit in tenths, ph_fit in degrees, and the rounding eps.
FitOutcomes ==
   [A : {-10, 0, 5, 10}, ph : {-180, -30, 0, 180}, eps : {-1, 0, 1}]

\* angle_max of every outcome of the fit.
AngleMaxOf == [f \in FitOutcomes |-> AngleMax(f.A, f.ph, f.eps)]

\* The angles the fit can report.
AngleMaxValues == {AngleMaxOf[f] : f \in FitOutcomes}

\* ------------------------------------------------------------------ datasets
\* One event of a station: its id, its recorded back-azimuth, the true
\* back-azimuth, the window of rotated back-azimuths the transform yields a
\* receiver function for, and the time range of its traces.
Event(evid, baz, ori, first, width, mode) ==
   [evid |-> evid, baz |-> baz, tbaz |-> baz - ori, gain |-> 5,
    lo |-> (baz + angles[1] + first * (360 \div NumAngles)) % 360,
    width |-> width * (360 \div NumAngles), mode |-> mode,
    starttime |-> 10 * evid, endtime |-> 10 * evid + 5]

\* A station's collection from its profile: nGood events that yield a receiver
\* function for `width` grid angles from grid index first + 1 on, nNever events
\* that never do, and (faulty) one event the transform raises for.
Collection(p) ==
   [j \in 1..(p.nGood + p.nNever + (IF p.faulty THEN 1 ELSE 0)) |->
      IF j <= p.nGood THEN Event(j, p.baz + (j - 1), p.ori + (j - 1), p.first, p.width, "ok")
      ELSE IF j <= p.nGood + p.nNever THEN Event(j, p.baz, p.ori, 0, 0, "ok")
      ELSE Event(j, p.baz, p.ori, 0, NumAngles, "raise")]

\* Recorded back-azimuths, two of them outside [0, 360).
BackAzimuths == {0, 270, 725, -365}

\* The profiles of a single-station dataset.
StationProfiles ==
   {p \in [baz : BackAzimuths, ori : {30}, first : {0, 1},
           width : {3, 4, 5, NumAngles},
           nGood : 0..MaxGood, nNever : 0..MaxNever, faulty : BOOLEAN] :
      p.nGood + p.nNever + (IF p.faulty THEN 1 ELSE 0) >= 1}

\* The profiles of the stations of a batch dataset.
BatchProfiles ==
   { [baz |-> 0, ori |-> 30, first |-> 0, width |-> NumAngles,
      nGood |-> 1, nNever |-> 0, faulty |-> FALSE],
     [baz |-> 270, ori |-> -60, first |-> 1, width |-> 5,
      nGood |-> 2, nNever |-> 0, faulty |-> FALSE],
     [baz |-> 0, ori |-> 30, first |-> 0, width |-> 0,
      nGood |-> 0, nNever |-> 1, faulty |-> FALSE],
     [baz |-> 0, ori |-> 30, first |-> 0, width |-> NumAngles,
      nGood |-> 1, nNever |-> 0, faulty |-> TRUE] }

\* NetworkEventDataset(src_h5_event_file): the stations in by_station() order,
\* each with its collection of events.
Datasets ==
   { [i \in 1..Len(f) |-> [sta |-> Names[i], events |-> Collection(f[i])]] :
        f \in UNION {[1..n -> BatchProfiles] : n \in 0..MaxStations} }
   \cup { <<[sta |-> Names[1], events |-> Collection(p)]>> : p \in StationProfiles }

\* What curate_seismograms can leave of the dataset: everything, or all but
\* the last event of one station, or all but one station, every event of
\* which is discarded (a station without events is culled from the dataset).
DropLast(dataset, i) ==
   [dataset EXCEPT ![i].events = SubSeq(@, 1, Len(@) - 1)]

Cull(dataset, i) ==
   [j \in 1..(Len(dataset) - 1) |-> IF j < i THEN dataset[j] ELSE dataset[j + 1]]

CurationOutcomes(dataset) ==
   {dataset}
   \cup {DropLast(dataset, i) :
           i \in {j \in 1..Len(dataset) : Len(dataset[j].events) >= 2}}
   \cup {Cull(dataset, i) : i \in 1..Len(dataset)}

\* ----------------------------------------------------------------- azimuth
\* format_data.azimuth.  An angle in radians is held as the integer r that
\* stands for r * pi / NpPi, so that a degree is degrad of these; the
\* functions of numpy are taken in exact arithmetic, times 10^4, and a
\* floating-point value is Finite(v), NaN, or Inf(s) with s the sign.
NpPi == 360

\* degrad = np.pi/180.0
degrad == NpPi \div 180

Inf(s) == [finite |-> FALSE, v |-> s]

Sign(v) == IF v > 0 THEN 1 ELSE IF v < 0 THEN -1 ELSE 0

Abs(v) == IF v < 0 THEN -v ELSE v

\* np.cos and np.sin of an angle in radians.
NpCos(r) == Cos(r \div degrad)

NpSin(r) == Cos(r \div degrad - 90)

\* np.sin(b)*np.cos(y)/np.sin(y) - np.cos(b)*np.cos(x - a): a division of
\* numpy floats by zero gives an infinity or, for 0/0, a NaN, and no error.
Denominator(a, b, xx, yy) ==
   LET sbcy == NpSin(b) * NpCos(yy)
   IN  IF NpSin(yy) = 0
       THEN IF sbcy = 0 THEN NaN ELSE Inf(Sign(sbcy))
       ELSE Finite(sbcy \div NpSin(yy) - (NpCos(b) * NpCos(xx - a)) \div 10000)

\* np.arctan(num/den) for a finite den other than zero: the angle between
\* -pi/2 and pi/2 whose tangent is nearest num/den.
ArcTan(num, den) ==
   LET off(t) == Abs(Cos(t - 90) * den - num * Cos(t))
   IN  degrad * (CHOOSE t \in -89..89 : \A u \in -89..89 : off(t) <= off(u))

\* azim = np.arctan(np.sin(x - a)/(...))
NpArctanQuotient(a, b, xx, yy) ==
   LET num == NpSin(xx - a)
       den == Denominator(a, b, xx, yy)
   IN  IF den = NaN THEN NaN
       ELSE IF ~den.finite THEN Finite(0)
       ELSE IF den.v # 0 THEN Finite(ArcTan(num, den.v))
       ELSE IF num = 0 THEN NaN
       ELSE Finite(Sign(num) * (NpPi \div 2))

Plus(f, k) == IF f.finite THEN Finite(f.v + k) ELSE f

Over(f, k) == IF f.finite THEN Finite(f.v \div k) ELSE f

\* The if / elif / elif of lines 56-58.
Quadrant(azim, lon1, lon2, colat1, colat2) ==
   IF lon2 > lon1 /\ colat2 < colat1 THEN azim
   ELSE IF colat2 > colat1 THEN Plus(azim, NpPi)
   ELSE IF lon2 < lon1 /\ colat2 < colat1 THEN Plus(azim, 2 * NpPi)
   ELSE azim

\* The arguments azimuth is called with.
AzLons == {0, 90, 200}

AzLats == {-90, 0, 60, 90}

AzUnits == {"degrees", "radians"}

\* No call of azimuth under way.
AzIdle ==
   [pc |-> "idle", units |-> "degrees", lon1 |-> 0, lat1 |-> 0, lon2 |-> 0,
    lat2 |-> 0, bound |-> {}, colat1 |-> 0, colat2 |-> 0, a |-> 0, b |-> 0,
    x |-> 0, y |-> 0, azim |-> NaN, err |-> "none"]

\* azimuth(lon1, lat1, lon2, lat2, units) entered, no local bound yet.
AzCall(lon1, lat1, lon2, lat2, units) ==
   [AzIdle EXCEPT !.pc = "call", !.units = units, !.lon1 = lon1,
                  !.lat1 = lat1, !.lon2 = lon2, !.lat2 = lat2]

\* --------------------------------------------------------------------- state
VARIABLES
   pc,               \* where process_event_file is
   ned,              \* the NetworkEventDataset
   dest_given,       \* dest_file is not None
   dest_file,        \* <<>> until written, then <<the mapping dumped>>
   results,          \* the mapping analyze_station_orientations builds
   returned,         \* <<>> until it returns, then <<the mapping returned>>
   log,              \* the logger.info records, in order
   stations,         \* the (sta, N) list built at dispatch
   job_state,        \* per job: "pending", "done" or "failed"
   job_out,          \* per job: what the worker computed
   completed,        \* the jobs in the order they completed
   sta_ori_metrics,  \* the (sta, N, ampls) triples
   it,               \* the index into sta_ori_metrics of the fitting loop
   y,                \* the closed curve of the station last looked at
   error,            \* "none", or the fatal condition raised
   az                \* the call of azimuth: its arguments, locals and outcome

vars == <<pc, ned, dest_given, dest_file, results, returned, log, stations,
          job_state, job_out, completed, sta_ori_metrics, it, y, error, az>>

Info(msg, sta, n, angle) == [msg |-> msg, sta |-> sta, n |-> n, angle |-> angle]

\* ned = NetworkEventDataset(src_h5_event_file), before the call of
\* analyze_station_orientations.
Init ==
   /\ pc = "analyze"
   /\ ned \in Datasets
   /\ dest_given \in BOOLEAN
   /\ dest_file = <<>>
   /\ results = [c \in {} |-> DateOnly(<<>>)]
   /\ returned = <<>>
   /\ log = <<>>
   /\ stations = <<>>
   /\ job_state = <<>>
   /\ job_out = <<>>
   /\ completed = <<>>
   /\ sta_ori_metrics = <<>>
   /\ it = 1
   /\ y = <<>>
   /\ error = "none"
   /\ az = AzIdle

\* An empty dataset that goes on into the pipeline instead of returning.
EmptyGoesOn ==
   /\ pc = "analyze"
   /\ NedLen(ned) = 0
   /\ pc' = "prepare"
   /\ UNCHANGED <<az, ned, dest_given, dest_file, results, returned, log, stations,
                  job_state, job_out, completed, sta_ori_metrics, it, y, error>>

\* if len(ned) == 0: return {}
EmptyReturn ==
   /\ pc = "analyze"
   /\ NedLen(ned) = 0
   /\ returned' = <<[c \in {} |-> DateOnly(<<>>)]>>
   /\ pc' = "write"
   /\ UNCHANGED <<az, ned, dest_given, dest_file, results, log, stations,
                  job_state, job_out, completed, sta_ori_metrics, it, y, error>>

\* Determine limiting date range per station.
DateRangeLoop ==
   /\ pc = "analyze"
   /\ NedLen(ned) # 0
   /\ results' = DateRanges(ned, Len(ned))
   /\ pc' = "prepare"
   /\ UNCHANGED <<az, ned, dest_given, dest_file, returned, log, stations,
                  job_state, job_out, completed, sta_ori_metrics, it, y, error>>

\* Trimming, downsampling and curation of the dataset, in place.
Prepare ==
   /\ pc = "prepare"
   /\ \E kept \in CurationOutcomes(ned) :
         /\ ned' = kept
         /\ log' = log \o
               << Info("Trimming dataset", "", 0, 0),
                  Info("Downsampling dataset", "", 0, 0),
                  Info("Curating dataset", "", 0, 0),
                  Info("Discarded", "", Cardinality(Evids(ned) \ Evids(kept)), 0) >>
   /\ pc' = "dispatch"
   /\ UNCHANGED <<az, dest_given, dest_file, results, returned, stations,
                  job_state, job_out, completed, sta_ori_metrics, it, y, error>>

\* The loop that builds stations and jobs, and the start of job_runner(jobs).
Dispatch ==
   /\ pc = "dispatch"
   /\ log' = Append(log, Info("Analysing arrivals", "", 0, 0))
   /\ stations' = [i \in 1..Len(ned) |->
                     [sta |-> ned[i].sta, N |-> Len(ned[i].events)]]
   /\ job_state' = [i \in 1..Len(ned) |-> "pending"]
   /\ job_out' = [i \in 1..Len(ned) |->
                    [ampls |-> <<>>, db |-> ned[i].events, rotated |-> <<>>]]
   /\ completed' = <<>>
   /\ pc' = "running"
   /\ UNCHANGED <<az, ned, dest_given, dest_file, results, returned,
                  sta_ori_metrics, it, y, error>>

\* A worker runs _run_single_station for job i to its end.
JobComplete(i) ==
   /\ pc = "running"
   /\ job_state[i] = "pending"
   /\ ~JobRaises(ned[i].events)
   /\ job_state' = [job_state EXCEPT ![i] = "done"]
   /\ job_out' = [job_out EXCEPT ![i] = Sweep(ned[i].events, NumAngles)]
   /\ completed' = Append(completed, i)
   /\ UNCHANGED <<az, pc, ned, dest_given, dest_file, results, returned, log,
                  stations, sta_ori_metrics, it, y, error>>

\* A dispatch that takes a failed job for a curve without data and goes on.
JobRaiseSwallowed(i) ==
   /\ pc = "running"
   /\ job_state[i] = "pending"
   /\ JobRaises(ned[i].events)
   /\ job_state' = [job_state EXCEPT ![i] = "failed"]
   /\ job_out' = [job_out EXCEPT ![i] =
                     [ampls |-> [a \in 1..NumAngles |-> NaN],
                      db |-> ned[i].events, rotated |-> <<>>]]
   /\ completed' = Append(completed, i)
   /\ error' = "worker"
   /\ UNCHANGED <<az, pc, ned, dest_given, dest_file, results, returned, log,
                  stations, sta_ori_metrics, it, y>>

\* The worker of job i raises: job_runner(jobs) raises in the caller, and
\* neither analyze_station_orientations nor process_event_file catches it.
JobRaise(i) ==
   /\ pc = "running"
   /\ job_state[i] = "pending"
   /\ JobRaises(ned[i].events)
   /\ job_state' = [job_state EXCEPT ![i] = "failed"]
   /\ error' = "worker"
   /\ pc' = "failed"
   /\ UNCHANGED <<az, ned, dest_given, dest_file, results, returned, log, stations,
                  job_out, completed, sta_ori_metrics, it, y>>

\* job_runner(jobs) returns once no job is left, and the curves are zipped
\* against the station list.
Collect ==
   /\ pc = "running"
   /\ \A i \in 1..Len(job_state) : job_state[i] # "pending"
   /\ sta_ori_metrics' = Zip(stations, Retrieve(job_out, completed))
   /\ it' = 1
   /\ pc' = "fit"
   /\ UNCHANGED <<az, ned, dest_given, dest_file, results, returned, log, stations,
                  job_state, job_out, completed, y, error>>

\* One pass of the fitting loop that ends at `continue`.
FitSkip ==
   /\ pc = "fit"
   /\ it <= Len(sta_ori_metrics)
   /\ LET m == sta_ori_metrics[it]
          curve == ClosedCurve(m.ampls)
      IN  /\ NValid(curve) < MinValid
          /\ y' = curve
          /\ log' = Append(log, Info("Insufficient data", m.sta, NValid(curve), 0))
   /\ it' = it + 1
   /\ UNCHANGED <<az, pc, ned, dest_given, dest_file, results, returned, stations,
                  job_state, job_out, completed, sta_ori_metrics, error>>

\* One pass of the fitting loop that fits the cosine and stores the estimate.
FitEstimate ==
   /\ pc = "fit"
   /\ it <= Len(sta_ori_metrics)
   /\ LET m == sta_ori_metrics[it]
          curve == ClosedCurve(m.ampls)
      IN  /\ NValid(curve) >= MinValid
          /\ y' = curve
          /\ \E angle_max \in AngleMaxValues :
                /\ results' = Put(results, Code(m.sta),
                                  WithAzimuth(Entry(results, Code(m.sta)), angle_max))
                /\ log' = Append(log, Info("estimate", m.sta, m.N, angle_max))
   /\ it' = it + 1
   /\ UNCHANGED <<az, pc, ned, dest_given, dest_file, returned, stations,
                  job_state, job_out, completed, sta_ori_metrics, error>>

\* A failed fit that is swallowed: the loop ends and the mapping is returned.
FitRaiseSwallowed ==
   /\ pc = "fit"
   /\ it <= Len(sta_ori_metrics)
   /\ NValid(ClosedCurve(sta_ori_metrics[it].ampls)) >= MinValid
   /\ y' = ClosedCurve(sta_ori_metrics[it].ampls)
   /\ error' = "fit"
   /\ returned' = <<results>>
   /\ pc' = "write"
   /\ UNCHANGED <<az, ned, dest_given, dest_file, results, log, stations,
                  job_state, job_out, completed, sta_ori_metrics, it>>

\* One pass of the fitting loop in which the spline or curve_fit raises: the
\* exception leaves analyze_station_orientations and process_event_file.
FitRaise ==
   /\ pc = "fit"
   /\ it <= Len(sta_ori_metrics)
   /\ NValid(ClosedCurve(sta_ori_metrics[it].ampls)) >= MinValid
   /\ y' = ClosedCurve(sta_ori_metrics[it].ampls)
   /\ error' = "fit"
   /\ pc' = "failed"
   /\ UNCHANGED <<az, ned, dest_given, dest_file, results, returned, log, stations,
                  job_state, job_out, completed, sta_ori_metrics, it>>

\* return results
Return ==
   /\ pc = "fit"
   /\ it > Len(sta_ori_metrics)
   /\ returned' = <<results>>
   /\ pc' = "write"
   /\ UNCHANGED <<az, ned, dest_given, dest_file, results, log, stations,
                  job_state, job_out, completed, sta_ori_metrics, it, y, error>>

\* if dest_file is not None: json.dump(results, f, indent=4)
WriteDest ==
   /\ pc = "write"
   /\ dest_file' = IF dest_given THEN <<returned[1]>> ELSE dest_file
   /\ pc' = "done"
   /\ UNCHANGED <<az, ned, dest_given, results, returned, log, stations,
                  job_state, job_out, completed, sta_ori_metrics, it, y, error>>

Next ==
   \/ EmptyReturn
   \/ DateRangeLoop
   \/ Prepare
   \/ Dispatch
   \/ \E i \in 1..Len(job_state) : JobComplete(i)
   \/ \E i \in 1..Len(job_state) : JobRaise(i)
   \/ Collect
   \/ FitSkip
   \/ FitEstimate
   \/ FitRaise
   \/ Return
   \/ WriteDest

Spec == Init /\ [][Next]_vars

\* ---------------------------------------------------- the call of azimuth
pvars == <<pc, ned, dest_given, dest_file, results, returned, log, stations,
           job_state, job_out, completed, sta_ori_metrics, it, y, error>>

InitAzimuth ==
   /\ pc = "idle"
   /\ ned = <<>>
   /\ dest_given = FALSE
   /\ dest_file = <<>>
   /\ results = [c \in {} |-> DateOnly(<<>>)]
   /\ returned = <<>>
   /\ log = <<>>
   /\ stations = <<>>
   /\ job_state = <<>>
   /\ job_out = <<>>
   /\ completed = <<>>
   /\ sta_ori_metrics = <<>>
   /\ it = 1
   /\ y = <<>>
   /\ error = "none"
   /\ az \in {AzCall(lon1, lat1, lon2, lat2, units) :
                lon1 \in AzLons, lat1 \in AzLats, lon2 \in AzLons,
                lat2 \in AzLats, units \in AzUnits}

\* if units == 'degrees': colat1 = 90 - lat1 ... y = colat2*degrad
AzConvertDegrees ==
   /\ az.pc = "call"
   /\ az.units = "degrees"
   /\ az' = [az EXCEPT !.pc = "arctan",
                       !.colat1 = 90 - az.lat1,
                       !.colat2 = 90 - az.lat2,
                       !.a = az.lon1 * degrad,
                       !.b = (90 - az.lat1) * degrad,
                       !.x = az.lon2 * degrad,
                       !.y = (90 - az.lat2) * degrad,
                       !.bound = {"colat1", "colat2", "degrad", "a", "b", "x", "y"}]
   /\ UNCHANGED pvars

\* else: a = lon1; b = np.pi/2 - lat1; x = lon2; y = np.pi/2 - lat2
AzConvertRadians ==
   /\ az.pc = "call"
   /\ az.units # "degrees"
   /\ az' = [az EXCEPT !.pc = "arctan",
                       !.a = az.lon1,
                       !.b = NpPi \div 2 - az.lat1,
                       !.x = az.lon2,
                       !.y = NpPi \div 2 - az.lat2,
                       !.bound = {"a", "b", "x", "y"}]
   /\ UNCHANGED pvars

\* azim = np.arctan(...)
AzArctan ==
   /\ az.pc = "arctan"
   /\ az' = [az EXCEPT !.pc = "quadrant",
                       !.azim = NpArctanQuotient(az.a, az.b, az.x, az.y),
                       !.bound = @ \cup {"azim"}]
   /\ UNCHANGED pvars

\* Lines 56-58 where colat1 and colat2 are bound.  Whichever way lon2 > lon1
\* goes, colat2 and then colat1 are read: by the first test when it holds,
\* by the first elif when it does not.
AzQuadrant ==
   /\ az.pc = "quadrant"
   /\ {"colat1", "colat2"} \subseteq az.bound
   /\ az' = [az EXCEPT !.pc = "scale",
                       !.azim = Quadrant(@, az.lon1, az.lon2, az.colat1, az.colat2)]
   /\ UNCHANGED pvars

\* Lines 56-57 where they are not: reading a local that no assignment has
\* bound raises UnboundLocalError.
AzQuadrantRaise ==
   /\ az.pc = "quadrant"
   /\ ~({"colat1", "colat2"} \subseteq az.bound)
   /\ az' = [az EXCEPT !.pc = "raised", !.err = "UnboundLocalError"]
   /\ UNCHANGED pvars

\* if units == 'degrees': azim = azim/degrad; return azim
AzReturn ==
   /\ az.pc = "scale"
   /\ az' = [az EXCEPT !.pc = "returned",
                       !.azim = IF az.units = "degrees" THEN Over(@, degrad) ELSE @]
   /\ UNCHANGED pvars

NextAzimuth ==
   \/ AzConvertDegrees
   \/ AzConvertRadians
   \/ AzArctan
   \/ AzQuadrant
   \/ AzQuadrantRaise
   \/ AzReturn

SpecAzimuth == InitAzimuth /\ [][NextAzimuth]_vars

\* ------------------------------------------------------------------- claims
\* The collection of the station called sta, as the jobs were given it.
EventsOf(sta) == ned[CHOOSE i \in 1..Len(ned) : ned[i].sta = sta].events

\* The (sta, N, ampls) triples the fitting loop is done with.
Processed == {i \in 1..Len(sta_ori_metrics) : i < it}

\* The station was skipped for insufficient data.
Skipped(sta) ==
   \E l \in 1..Len(log) : log[l].msg = "Insufficient data" /\ log[l].sta = sta

\* The events of a collection that yield a receiver function at some angle.
Contributing(db_evid) ==
   {j \in 1..Len(db_evid) :
      \E a \in 1..NumAngles :
         TransformYields(db_evid[j], Rotate(db_evid[j].baz, angles[a]))}

\* C1: whatever the order the jobs complete in, the i-th curve handed back is
\* the curve of the i-th station submitted, so every (sta, N, ampls) triple
\* pairs a station with the curve computed from its own collection.  Every
\* triple is looked at when the dispatch has just returned, and again when the
\* fitting loop comes to it.
C1_PositionalPairing ==
   pc = "fit" =>
      /\ Len(sta_ori_metrics) = Len(ned)
      /\ \A i \in 1..Len(sta_ori_metrics) :
            it = 1 \/ i = it =>
               /\ sta_ori_metrics[i].sta = ned[i].sta
               /\ sta_ori_metrics[i].N = Len(ned[i].events)
               /\ sta_ori_metrics[i].ampls = RunSingleStation(ned[i].events)

\* Two stations with different curves, the second job completed first.
C1_Witness ==
   /\ pc = "fit"
   /\ Len(completed) = 2
   /\ completed[1] = 2
   /\ Len(sta_ori_metrics) = 2
   /\ sta_ori_metrics[1].ampls # sta_ori_metrics[2].ampls

\* C2: if the job of any one station raises, the whole batch fails: no result
\* mapping is returned, no azimuth_correction of any station has been stored,
\* and the command ends in failure.
C2_WorkerFailureAbortsBatch ==
   (\E i \in 1..Len(job_state) : job_state[i] = "failed")
      => /\ pc = "failed"
         /\ returned = <<>>
         /\ \A c \in DOMAIN results : "azimuth_correction" \notin results[c].keys

\* Two stations: the job of one raised after the job of the other completed.
C2_Witness ==
   /\ Len(job_state) = 2
   /\ \E i, j \in 1..2 : job_state[i] = "failed" /\ job_state[j] = "done"

\* C3: after any fatal condition inside analyze_station_orientations (a worker
\* exception, or a failed fit at whichever station) process_event_file has
\* failed and dest_file is not written.
C3_FatalWritesNoFile ==
   error # "none" => pc = "failed" /\ dest_file = <<>> /\ returned = <<>>

\* A destination is given and the fit fails at the second station, after the
\* first station's estimate was stored.
C3_Witness ==
   /\ error = "fit"
   /\ dest_given
   /\ it = 2
   /\ \E c \in DOMAIN results : "azimuth_correction" \in results[c].keys

\* C4: a station with fewer than 5 finite amplitude samples gets no
\* azimuth_correction, and a station with 5 or more gets one (the fit having
\* succeeded).
C4_GateOnStationSamples ==
   \A i \in Processed :
      LET m == sta_ori_metrics[i]
          emitted == "azimuth_correction" \in results[Code(m.sta)].keys
      IN  /\ NValid(m.ampls) < MinValid => ~emitted
          /\ NValid(m.ampls) >= MinValid => emitted

\* C5: a station skipped for insufficient data has no entry in the mapping
\* returned, so every entry of a station the fitting loop looked at carries
\* date_range and azimuth_correction.
C5_SkippedStationExcluded ==
   returned # <<>> =>
      \A i \in 1..Len(sta_ori_metrics) :
         LET c == Code(sta_ori_metrics[i].sta)
         IN  /\ Skipped(sta_ori_metrics[i].sta) => c \notin DOMAIN returned[1]
             /\ c \in DOMAIN returned[1] =>
                   returned[1][c].keys = {"date_range", "azimuth_correction"}

\* C6: the N reported with a station's estimate is the number of its events
\* that contributed a receiver function (6 events, 1 of them never yielding
\* one: N = 5).
C6_NCountsContributing ==
   \A l \in 1..Len(log) :
      log[l].msg = "estimate"
         => log[l].n = Cardinality(Contributing(EventsOf(log[l].sta)))

\* C7: the back-azimuth of every rotated copy is in [0, 360), is congruent to
\* back_azimuth + correction modulo 360, and is left unchanged by the
\* adjustment applied once more.  The copies are looked at while the workers
\* run; what a worker computed does not change afterwards.
C7_WrapTotalIdempotent ==
   pc = "running" =>
      \A i \in 1..Len(job_out) :
         \A a \in 1..Len(job_out[i].rotated) :
            \A j \in 1..Len(job_out[i].rotated[a]) :
               LET v == job_out[i].rotated[a][j]
               IN  /\ v \in 0..359
                   /\ (v - (ned[i].events[j].baz + angles[a])) % 360 = 0
                   /\ Wrap(v) = v

\* A job has rotated a copy whose sum needs 360 taken off more than once, one
\* whose sum needs 360 added more than once, and one whose sum is exactly 360.
C7_Witness ==
   \E i \in 1..Len(job_out) :
      /\ job_state[i] = "done"
      /\ \E a \in 1..NumAngles : \E j \in 1..Len(ned[i].events) :
            \/ ned[i].events[j].baz + angles[a] >= 720
            \/ ned[i].events[j].baz + angles[a] < -360
            \/ ned[i].events[j].baz + angles[a] = 360

\* C8: every azimuth_correction stored lies in the half-open range
\* [-180, 180).
C8_HalfOpenRange ==
   \A c \in DOMAIN results :
      "azimuth_correction" \in results[c].keys
         => results[c].azimuth_correction \in -180..179

\* C9: the closed curve has one point more than the grid, its first points
\* are the station's curve, and its last point, at angle grid[0] + 360, is
\* the value at the first grid angle, the undefined one included.
C9_CurveClosure ==
   y # <<>> =>
      LET m == sta_ori_metrics[IF error = "fit" THEN it ELSE it - 1]
      IN  /\ Len(y) = NumAngles + 1
          /\ Len(x) = Len(y)
          /\ x[Len(x)] = angles[1] + 360
          /\ \A i \in 1..NumAngles : y[i] = m.ampls[i]
          /\ y[NumAngles + 1] = m.ampls[1]

\* A closed curve whose first sample is undefined and whose second is finite:
\* the point appended is the undefined one.
C9_Witness ==
   /\ y # <<>>
   /\ ~y[1].finite
   /\ y[2].finite
   /\ ~y[NumAngles + 1].finite

\* C10: a dataset without events is a success without work: the mapping
\* returned is empty, nothing has failed, and no trimming, curation, dispatch
\* or fitting has run.
C10_EmptyDataset ==
   NedLen(ned) = 0 /\ DOMAIN results = {}
      => /\ pc \in {"analyze", "write", "done"}
         /\ pc # "analyze" => returned # <<>> /\ DOMAIN returned[1] = {}
         /\ error = "none"
         /\ log = <<>>
         /\ stations = <<>> /\ job_state = <<>> /\ sta_ori_metrics = <<>>
         /\ y = <<>>

\* The run on a dataset without events has ended, the empty mapping returned.
C10_Witness ==
   /\ pc = "done"
   /\ NedLen(ned) = 0
   /\ DOMAIN results = {}
   /\ returned # <<>>
   /\ DOMAIN returned[1] = {}

\* The events of a collection that yield a receiver function at grid angle a,
\* each rotated from its recorded back-azimuth.
Yielding(db_evid, a) ==
   {j \in 1..Len(db_evid) :
      TransformYields(db_evid[j], Wrap(db_evid[j].baz + angles[a]))}

\* The sum of the amplitudes of the events of S at grid angle a.
RECURSIVE SumAmps(_, _, _)
SumAmps(db_evid, S, a) ==
   IF S = {} THEN 0
   ELSE LET j == CHOOSE e \in S : TRUE
        IN  RfAmp(db_evid[j], Wrap(db_evid[j].baz + angles[a]))
               + SumAmps(db_evid, S \ {j}, a)

\* C11: after the sweep over the angles the records of the collection are as
\* they were, and the back-azimuth used for an event at an angle is the wrap
\* of its recorded back-azimuth plus that angle alone.  Looked at while the
\* workers run; what a worker computed does not change afterwards.
C11_NoMutationNoAccumulation ==
   pc = "running" =>
      \A i \in 1..Len(job_out) :
         job_state[i] = "done" =>
            /\ job_out[i].db = ned[i].events
            /\ Len(job_out[i].rotated) = NumAngles
            /\ \A a \in 1..NumAngles :
                  /\ Len(job_out[i].rotated[a]) = Len(ned[i].events)
                  /\ \A j \in 1..Len(ned[i].events) :
                        job_out[i].rotated[a][j]
                           = Wrap(ned[i].events[j].baz + angles[a])

\* A job has swept the angles over a collection of two events or more, and
\* the back-azimuths it used at the first two angles differ.
C11_Witness ==
   /\ pc = "running"
   /\ \E i \in 1..Len(job_out) :
         /\ job_state[i] = "done"
         /\ Len(ned[i].events) >= 2
         /\ job_out[i].rotated[1][1] # job_out[i].rotated[2][1]
         /\ job_out[i].rotated[1][2] # job_out[i].rotated[2][2]

\* C12: the sweep gives one amplitude per angle; the amplitude of an angle is
\* the undefined one exactly when no event yields a receiver function there,
\* and otherwise it is the mean over the events that do, the others being
\* passed over.
C12_SkipAndSentinel ==
   pc = "running" =>
      \A i \in 1..Len(job_out) :
         job_state[i] = "done" =>
            /\ Len(job_out[i].ampls) = NumAngles
            /\ \A a \in 1..NumAngles :
                  LET Y == Yielding(ned[i].events, a)
                  IN  /\ (job_out[i].ampls[a] = NaN) <=> (Y = {})
                      /\ Y # {} =>
                            job_out[i].ampls[a] =
                               Finite(SumAmps(ned[i].events, Y, a) \div Cardinality(Y))

\* A job is done in which, at some angle, one event yields nothing while
\* another contributes, and an angle without any receiver function is
\* followed by an angle with a finite amplitude.
C12_Witness ==
   /\ pc = "running"
   /\ \E i \in 1..Len(job_out) :
         /\ job_state[i] = "done"
         /\ \E a \in 1..NumAngles :
               LET Y == Yielding(ned[i].events, a)
               IN  Y # {} /\ Y # 1..Len(ned[i].events)
         /\ \E a1, a2 \in 1..NumAngles :
               /\ a1 < a2
               /\ job_out[i].ampls[a1] = NaN
               /\ job_out[i].ampls[a2].finite

\* The number of grid angles at which a station has a finite amplitude.
FiniteOnGrid(ampls) == Cardinality({a \in 1..NumAngles : ampls[a].finite})

\* C13: the gate counts the closed curve, so a finite first sample counts
\* twice: a station with exactly 4 finite amplitudes on the grid is estimated
\* exactly when one of them is at the first grid angle, and a station with
\* exactly 5 is estimated.
C13_GateCountsWrapPoint ==
   \A i \in Processed :
      LET m == sta_ori_metrics[i]
          emitted == "azimuth_correction" \in results[Code(m.sta)].keys
      IN  /\ FiniteOnGrid(m.ampls) = MinValid - 1 => (emitted <=> m.ampls[1].finite)
          /\ FiniteOnGrid(m.ampls) = MinValid => emitted

\* A station with 4 finite amplitudes, the first grid angle among them, has
\* been given an estimate.
C13_Witness ==
   \E i \in Processed :
      /\ FiniteOnGrid(sta_ori_metrics[i].ampls) = MinValid - 1
      /\ sta_ori_metrics[i].ampls[1].finite
      /\ "azimuth_correction" \in results[Code(sta_ori_metrics[i].sta)].keys

\* A station with 4 finite amplitudes, none at the first grid angle, has been
\* skipped.
C13_WitnessSkipped ==
   \E i \in Processed :
      /\ FiniteOnGrid(sta_ori_metrics[i].ampls) = MinValid - 1
      /\ ~sta_ori_metrics[i].ampls[1].finite
      /\ Skipped(sta_ori_metrics[i].sta)

\* C14: a call of azimuth, with units 'degrees' or with units 'radians',
\* does not end in an error.
C14_BothUnitsReturn == az.err = "none"

\* The calls that return are calls with units 'degrees'.
C14_DegreesReturn ==
   az.pc = "returned" => az.units = "degrees" /\ az.err = "none"

=============================================================================
